---------------------------- MODULE Spec2Model ----------------------------
(***************************************************************************)
(* A model of databasepy/database.py: the query-construction and value     *)
(* sanitising helpers of __Database, and the session discipline of the     *)
(* adapter methods of __Database, SQLiteDatabase and PostgreSQLDatabase.   *)
(*                                                                         *)
(* A Python str is a sequence of one-character strings; a Python list is a *)
(* sequence.  None and [] for on_conflict_fields are both the empty        *)
(* sequence: line 79 tests only truthiness, and neither is read otherwise. *)
(***************************************************************************)
EXTENDS Integers, Sequences, FiniteSets, TLC

(***************************************************************************)
(* Bounds of the model.                                                    *)
(***************************************************************************)
MaxFields == 2        \* longest field list given to get_insert_query
MaxConflict == 2      \* longest on_conflict_fields list
MaxRows == 2          \* most rows of a batch given to validate_insert_values
MaxCols == 2          \* longest row of such a batch
MaxPatchLen == 4      \* longest text given to validate_query alone
MaxText == 3          \* longest query text given to select_query and query
MaxSessions == 2      \* sessions the backend hands out before the run stops

(***************************************************************************)
(* Python str and list primitives.                                         *)
(***************************************************************************)
Range(s) == {s[i] : i \in 1..Len(s)}

SeqsUpTo(S, n) == UNION {[1..k -> S] : k \in 0..n}

IsPrefix(p, s) == Len(p) <= Len(s) /\ SubSeq(s, 1, Len(p)) = p

IsSuffix(p, s) ==
    Len(p) <= Len(s) /\ SubSeq(s, Len(s) - Len(p) + 1, Len(s)) = p

Contains(s, p) ==
    \E i \in 1..(Len(s) - Len(p) + 1) : SubSeq(s, i, i + Len(p) - 1) = p

\* The start of the leftmost occurrence of p in s, 0 when there is none.
StrFind(s, p) ==
    IF Contains(s, p)
    THEN CHOOSE i \in 1..(Len(s) - Len(p) + 1) :
             /\ SubSeq(s, i, i + Len(p) - 1) = p
             /\ \A j \in 1..(i - 1) : SubSeq(s, j, j + Len(p) - 1) # p
    ELSE 0

\* str.replace(old, new): every non-overlapping occurrence of old, found
\* scanning left to right, becomes new (old is non-empty).
RECURSIVE StrReplace(_, _, _)
StrReplace(s, old, new) ==
    LET k == StrFind(s, old)
    IN  IF k = 0 THEN s
        ELSE SubSeq(s, 1, k - 1) \o new
                 \o StrReplace(SubSeq(s, k + Len(old), Len(s)), old, new)

\* sep.join(parts)
RECURSIVE StrJoin(_, _)
StrJoin(sep, parts) ==
    IF parts = <<>> THEN <<>>
    ELSE IF Len(parts) = 1 THEN parts[1]
    ELSE parts[1] \o sep \o StrJoin(sep, Tail(parts))

\* s.split(c) for a one-character separator c: always at least one piece.
RECURSIVE StrSplit(_, _)
StrSplit(s, c) ==
    IF \A i \in 1..Len(s) : s[i] # c THEN <<s>>
    ELSE LET k == CHOOSE i \in 1..Len(s) :
                      s[i] = c /\ \A j \in 1..(i - 1) : s[j] # c
         IN  <<SubSeq(s, 1, k - 1)>> \o StrSplit(SubSeq(s, k + 1, Len(s)), c)

UpperLetters ==
    <<"A","B","C","D","E","F","G","H","I","J","K","L","M",
      "N","O","P","Q","R","S","T","U","V","W","X","Y","Z">>
LowerLetters ==
    <<"a","b","c","d","e","f","g","h","i","j","k","l","m",
      "n","o","p","q","r","s","t","u","v","w","x","y","z">>

\* str.lower()
StrLower(s) ==
    [i \in 1..Len(s) |->
        IF \E k \in 1..26 : UpperLetters[k] = s[i]
        THEN LowerLetters[CHOOSE k \in 1..26 : UpperLetters[k] = s[i]]
        ELSE s[i]]

\* [x for x in s if x not in excluded]
RECURSIVE ListWithout(_, _)
ListWithout(s, excluded) ==
    IF s = <<>> THEN <<>>
    ELSE IF Head(s) \notin Range(excluded)
         THEN <<Head(s)>> \o ListWithout(Tail(s), excluded)
         ELSE ListWithout(Tail(s), excluded)

(***************************************************************************)
(* String literals of database.py.                                         *)
(***************************************************************************)
CommaSpace == <<",", " ">>
CommaParen == <<",", ")">>
CloseParen == <<")">>
SQLITE == <<"s","q","l","i","t","e">>
POSTGRESQL == <<"p","o","s","t","g","r","e","s","q","l">>
INSERT == <<"I","N","S","E","R","T">>
INSERT_OR_IGNORE == INSERT \o <<" ","O","R"," ","I","G","N","O","R","E">>
INSERT_INTO == INSERT \o <<" ","I","N","T","O"," ">>
VALUES_OPEN == <<")"," ","V","A","L","U","E","S"," ","(">>
ON_CONFLICT_OPEN == <<"O","N"," ","C","O","N","F","L","I","C","T"," ","(">>
CLOSE_DO == <<")"," ","D","O">>
NOTHING == <<" ","N","O","T","H","I","N","G">>
UPDATE_SET == <<" ","U","P","D","A","T","E"," ","S","E","T"," ">>
EXCLUDED == <<"E","X","C","L","U","D","E","D",".">>
SELECT_ALL_FROM == <<"S","E","L","E","C","T"," ","*"," ","F","R","O","M"," ">>

(***************************************************************************)
(* __Database.validate_query                                               *)
(***************************************************************************)
validate_query(query) == StrReplace(query, CommaParen, CloseParen)

(***************************************************************************)
(* __Database.get_insert_query.  The result is [raised, value]: raised is  *)
(* "None" when the statement value is returned.                            *)
(***************************************************************************)
Returned(v) == [raised |-> "None", value |-> v]
Raised(e) == [raised |-> e, value |-> <<>>]

\* A slip in the placeholder table: one token for both dialects.
languages_one_token(language) == <<"?">>

\* languages = {'sqlite':'?','postgresql':'%s'}
languages(language) == IF language = SQLITE THEN <<"?">> ELSE <<"%", "s">>

language_is_valid(language) == language \in {SQLITE, POSTGRESQL}

\* f'\"{field}\"'
QuoteField(field) == <<"\"">> \o field \o <<"\"">>

fields_placeholder(fields) ==
    StrJoin(CommaSpace, [i \in 1..Len(fields) |-> QuoteField(fields[i])])

values_placeholder(fields, language) ==
    StrJoin(CommaSpace, [i \in 1..Len(fields) |-> languages(language)])

insert_statement(table_name, fields, language) ==
    INSERT_INTO \o table_name \o <<" ", "(">> \o fields_placeholder(fields)
        \o VALUES_OPEN \o values_placeholder(fields, language) \o <<")">>

on_conflict_update_fields(fields, on_conflict_fields) ==
    LET kept == ListWithout(fields, on_conflict_fields)
    IN  [i \in 1..Len(kept) |-> QuoteField(kept[i])]

on_conflict_placeholder(update_fields) ==
    <<"(">> \o StrJoin(CommaSpace, update_fields) \o <<")", " ", "=", " ", "(">>
        \o StrJoin(CommaSpace,
               [i \in 1..Len(update_fields) |-> EXCLUDED \o update_fields[i]])
        \o <<")">>

\* ignore_on_conflict or len(set(fields+on_conflict_fields)) == len(on_conflict_fields)
nothing_to_update(fields, on_conflict_fields, ignore_on_conflict) ==
    \/ ignore_on_conflict
    \/ Cardinality(Range(fields \o on_conflict_fields)) = Len(on_conflict_fields)

on_conflict_query(query, fields, language, on_conflict_fields, ignore_on_conflict) ==
    LET update_fields == on_conflict_update_fields(fields, on_conflict_fields)
        conflict_placeholder == fields_placeholder(on_conflict_fields)
        nothing == nothing_to_update(fields, on_conflict_fields, ignore_on_conflict)
    IN  IF language = SQLITE
        THEN IF nothing
             THEN StrReplace(query, INSERT, INSERT_OR_IGNORE)
             ELSE query \o ON_CONFLICT_OPEN \o conflict_placeholder \o CLOSE_DO
                      \o UPDATE_SET \o on_conflict_placeholder(update_fields)
        ELSE IF nothing
             THEN query \o ON_CONFLICT_OPEN \o conflict_placeholder \o CLOSE_DO
                      \o NOTHING
             ELSE query \o ON_CONFLICT_OPEN \o conflict_placeholder \o CLOSE_DO
                      \o UPDATE_SET \o on_conflict_placeholder(update_fields)

get_insert_query(table_name, fields, language, on_conflict_fields, ignore_on_conflict) ==
    LET lang == StrLower(language)
    IN  IF ~language_is_valid(lang) THEN Raised("AssertionError")
        ELSE LET query == insert_statement(table_name, fields, lang)
             IN  Returned(validate_query(
                     IF on_conflict_fields # <<>>
                     THEN on_conflict_query(query, fields, lang,
                              on_conflict_fields, ignore_on_conflict)
                     ELSE query))

(***************************************************************************)
(* __Database.validate_insert_values.  A value is [type, nan]: its Python  *)
(* type and whether it is a NaN.  None is the one value of NoneType.       *)
(***************************************************************************)
None == [type |-> "NoneType", nan |-> FALSE]

\* The types whose NaN exists: Python float and the numpy floats.
FloatTypes == {"float", "numpy.float64", "numpy.float32"}

\* Python scalars, and the numpy scalars register_adapters names.
OtherTypes ==
    {"int", "bool", "str", "datetime", "numpy.int64", "numpy.int32",
     "numpy.bool_", "numpy.datetime64"}

\* isinstance(v,(int,float)): bool subclasses int and numpy.float64
\* subclasses float; no other numpy scalar subclasses either.
isinstance_int_float(v) == v.type \in {"int", "bool", "float", "numpy.float64"}

\* math.isnan(v), called only on an instance of int or float
isnan(v) == v.nan

validate_insert_value(v) == IF isinstance_int_float(v) /\ isnan(v) THEN None ELSE v

validate_insert_values(values) ==
    [i \in 1..Len(values) |->
        [j \in 1..Len(values[i]) |-> validate_insert_value(values[i][j])]]

(***************************************************************************)
(* __Database.read_table: the decoder chosen by the last dot-separated     *)
(* suffix of the path, "None" when no decoder is registered for it.        *)
(***************************************************************************)
CSV == <<"c","s","v">>
PKL == <<"p","k","l">>
PARQUET == <<"p","a","r","q","u","e","t">>

file_extension(filepath) ==
    LET parts == StrSplit(filepath, ".") IN parts[Len(parts)]

reader(extension) ==
    IF extension = CSV THEN "read_csv"
    ELSE IF extension = PKL THEN "read_pickle"
    ELSE IF extension = PARQUET THEN "read_parquet"
    ELSE "None"

\* A slip in the dispatch: an unregistered suffix is decoded all the same.
read_table_any_suffix(filepath, decoded) == decoded

\* decoded is what the decoder makes of the file: [raised, value], value a
\* table [columns, records] when the decoder succeeds.
read_table(filepath, decoded) ==
    IF reader(file_extension(filepath)) # "None" THEN decoded
    ELSE Raised("TypeError")

(***************************************************************************)
(* The backend seen through a session.  A call of a handler leaves a log   *)
(* of the driver calls it made: [ev, sid, arg, rows, err].  arg is the     *)
(* statement the call is about, rows the rows submitted with it, err is    *)
(* "None" when the driver call succeeded; sid is 0 where no session exists.*)
(***************************************************************************)
EvRows(ev, sid, arg, rows, err) ==
    [ev |-> ev, sid |-> sid, arg |-> arg, rows |-> rows, err |-> err]

Ev(ev, sid, arg, err) == EvRows(ev, sid, arg, <<>>, err)

\* The result set the backend gives for a statement.
ResultOf(q) == [rows_of |-> q]

\* What a handler does: the driver calls, then a return or a raise.
Outcome(log, raised, value) == [log |-> log, raised |-> raised, value |-> value]

\* The driver call named step fails in this call with error fail.err.
Fails(fail, step) == fail.step = step

NoFail == [step |-> "none", k |-> 0, err |-> "None"]

\* A slip in select_query: the session is closed only when read_sql succeeds.
select_query_close_on_success(query, sid, fail) ==
    IF Fails(fail, "connect")
    THEN Outcome(<<Ev("connect", 0, <<>>, fail.err)>>, "UnboundLocalError", <<>>)
    ELSE LET q == validate_query(query)
             opened == <<Ev("connect", sid, <<>>, "None")>>
         IN  IF Fails(fail, "read_sql")
             THEN Outcome(opened \o <<Ev("read_sql", sid, q, fail.err)>>,
                          fail.err, <<>>)
             ELSE Outcome(opened \o <<Ev("read_sql", sid, q, "None"),
                                      Ev("close", sid, <<>>, "None")>>,
                          "None", ResultOf(q))

(***************************************************************************)
(* __Database.select_query.  sid is the session get_connection would open. *)
(* When get_connection raises, connection is unbound in the finally block  *)
(* and connection.close() raises UnboundLocalError in place of the error.  *)
(***************************************************************************)
select_query(query, sid, fail) ==
    IF Fails(fail, "connect")
    THEN Outcome(<<Ev("connect", 0, <<>>, fail.err)>>, "UnboundLocalError", <<>>)
    ELSE LET q == validate_query(query)
             opened == <<Ev("connect", sid, <<>>, "None")>>
         IN  IF Fails(fail, "read_sql")
             THEN Outcome(opened \o <<Ev("read_sql", sid, q, fail.err),
                                      Ev("close", sid, <<>>, "None")>>,
                          fail.err, <<>>)
             ELSE Outcome(opened \o <<Ev("read_sql", sid, q, "None"),
                                      Ev("close", sid, <<>>, "None")>>,
                          "None", ResultOf(q))

(***************************************************************************)
(* __Database.get_table                                                    *)
(***************************************************************************)
get_table(table_name, sid, fail) ==
    select_query(SELECT_ALL_FROM \o table_name, sid, fail)

\* A slip in the loop of query: one commit after the last statement instead
\* of one after each.
RECURSIVE query_loop_commit_last(_, _, _, _, _, _)
query_loop_commit_last(statements, i, sid, fail, log, responses) ==
    IF i > Len(statements)
    THEN IF Fails(fail, "commit")
         THEN Outcome(log \o <<Ev("commit", sid, <<>>, fail.err)>>, fail.err, <<>>)
         ELSE Outcome(log \o <<Ev("commit", sid, <<>>, "None")>>, "None", responses)
    ELSE LET q == statements[i]
             failsHere(step) == Fails(fail, step) /\ fail.k = i
         IN  IF failsHere("execute")
             THEN Outcome(log \o <<Ev("execute", sid, q, fail.err)>>, fail.err, <<>>)
             ELSE IF failsHere("fetchall")
             THEN Outcome(log \o <<Ev("execute", sid, q, "None"),
                                   Ev("fetchall", sid, q, fail.err)>>,
                          fail.err, <<>>)
             ELSE query_loop_commit_last(statements, i + 1, sid, fail,
                      log \o <<Ev("execute", sid, q, "None"),
                               Ev("fetchall", sid, q, "None")>>,
                      Append(responses, ResultOf(q)))

(***************************************************************************)
(* __Database.query.  get_connection is called before the try block, so   *)
(* its error propagates as it is.  The loop body runs for the statements   *)
(* from index i on; fail.k is the statement whose driver call fails.       *)
(***************************************************************************)
RECURSIVE query_loop(_, _, _, _, _, _)
query_loop(statements, i, sid, fail, log, responses) ==
    IF i > Len(statements) THEN Outcome(log, "None", responses)
    ELSE LET q == statements[i]
             failsHere(step) == Fails(fail, step) /\ fail.k = i
         IN  IF failsHere("execute")
             THEN Outcome(log \o <<Ev("execute", sid, q, fail.err)>>, fail.err, <<>>)
             ELSE IF failsHere("fetchall")
             THEN Outcome(log \o <<Ev("execute", sid, q, "None"),
                                   Ev("fetchall", sid, q, fail.err)>>,
                          fail.err, <<>>)
             ELSE IF failsHere("commit")
             THEN Outcome(log \o <<Ev("execute", sid, q, "None"),
                                   Ev("fetchall", sid, q, "None"),
                                   Ev("commit", sid, q, fail.err)>>,
                          fail.err, <<>>)
             ELSE query_loop(statements, i + 1, sid, fail,
                      log \o <<Ev("execute", sid, q, "None"),
                               Ev("fetchall", sid, q, "None"),
                               Ev("commit", sid, q, "None")>>,
                      Append(responses, ResultOf(q)))

query(text, sid, fail) ==
    IF Fails(fail, "connect")
    THEN Outcome(<<Ev("connect", 0, <<>>, fail.err)>>, fail.err, <<>>)
    ELSE LET statements == StrSplit(validate_query(text), ";")
             body == query_loop(statements, 1, sid, fail,
                         <<Ev("connect", sid, <<>>, "None")>>, <<>>)
         IN  Outcome(body.log \o <<Ev("close", sid, <<>>, "None")>>,
                     body.raised, body.value)

(***************************************************************************)
(* SQLiteDatabase.get_schema.  schema is the 'sql' column the catalog      *)
(* query gives.                                                            *)
(***************************************************************************)
SCHEMA_QUERY ==
    <<"S","E","L","E","C","T"," ","*"," ","F","R","O","M"," ","s","q","l",
      "i","t","e","_","m","a","s","t","e","r"," ","W","H","E","R","E"," ",
      "t","y","p","e"," ","I","N"," ","(","'","t","a","b","l","e","'",",",
      " ","'","v","i","e","w","'",")">>

get_schema(schema, sid, fail) ==
    IF Fails(fail, "connect")
    THEN Outcome(<<Ev("connect", 0, <<>>, fail.err)>>, "UnboundLocalError", <<>>)
    ELSE LET q == validate_query(SCHEMA_QUERY)
             opened == <<Ev("connect", sid, <<>>, "None")>>
         IN  IF Fails(fail, "read_sql")
             THEN Outcome(opened \o <<Ev("read_sql", sid, q, fail.err),
                                      Ev("close", sid, <<>>, "None")>>,
                          fail.err, <<>>)
             ELSE Outcome(opened \o <<Ev("read_sql", sid, q, "None"),
                                      Ev("close", sid, <<>>, "None")>>,
                          "None", StrJoin(<<"\n", "\n">>, schema))

(***************************************************************************)
(* The arguments of insert: values, the optional query [given, text] and   *)
(* the keyword arguments handed on to get_insert_query.                    *)
(***************************************************************************)
insert_statement_for(a, language) ==
    IF a.query.given THEN Returned(a.query.text)
    ELSE get_insert_query(a.table_name, a.fields, language,
             a.on_conflict_fields, a.ignore_on_conflict)

(***************************************************************************)
(* SQLiteDatabase.insert                                                   *)
(***************************************************************************)
sqlite_insert(a, sid, fail) ==
    LET values == validate_insert_values(a.values)
        built == insert_statement_for(a, SQLITE)
        opened == <<Ev("connect", sid, <<>>, "None")>>
        closed == <<Ev("close", sid, <<>>, "None")>>
    IN  IF built.raised # "None" THEN Outcome(<<>>, built.raised, <<>>)
        ELSE IF Fails(fail, "connect")
        THEN Outcome(<<Ev("connect", 0, <<>>, fail.err)>>, "UnboundLocalError", <<>>)
        ELSE IF Fails(fail, "executemany")
        THEN Outcome(opened
                 \o <<EvRows("executemany", sid, built.value, values, fail.err)>>
                 \o closed, fail.err, <<>>)
        ELSE IF Fails(fail, "commit")
        THEN Outcome(opened
                 \o <<EvRows("executemany", sid, built.value, values, "None"),
                      Ev("commit", sid, built.value, fail.err)>>
                 \o closed, fail.err, <<>>)
        ELSE Outcome(opened
                 \o <<EvRows("executemany", sid, built.value, values, "None"),
                      Ev("commit", sid, built.value, "None")>>
                 \o closed, "None", <<>>)

(***************************************************************************)
(* PostgreSQLDatabase.insert.  The finally block is cursor.close() and     *)
(* then connection.close(): when get_connection or connection.cursor()     *)
(* raised, cursor is unbound, cursor.close() raises UnboundLocalError and  *)
(* connection.close() is not reached.                                      *)
(***************************************************************************)
postgresql_insert(a, sid, fail) ==
    LET values == validate_insert_values(a.values)
        built == insert_statement_for(a, POSTGRESQL)
        opened == <<Ev("connect", sid, <<>>, "None"), Ev("cursor", sid, <<>>, "None")>>
        closed == <<Ev("cursor_close", sid, <<>>, "None"),
                    Ev("close", sid, <<>>, "None")>>
    IN  IF built.raised # "None" THEN Outcome(<<>>, built.raised, <<>>)
        ELSE IF Fails(fail, "connect")
        THEN Outcome(<<Ev("connect", 0, <<>>, fail.err)>>, "UnboundLocalError", <<>>)
        ELSE IF Fails(fail, "cursor")
        THEN Outcome(<<Ev("connect", sid, <<>>, "None"),
                       Ev("cursor", sid, <<>>, fail.err)>>,
                     "UnboundLocalError", <<>>)
        ELSE IF Fails(fail, "execute_batch")
        THEN Outcome(opened
                 \o <<EvRows("execute_batch", sid, built.value, values, fail.err)>>
                 \o closed, fail.err, <<>>)
        ELSE IF Fails(fail, "commit")
        THEN Outcome(opened
                 \o <<EvRows("execute_batch", sid, built.value, values, "None"),
                      Ev("commit", sid, built.value, fail.err)>>
                 \o closed, fail.err, <<>>)
        ELSE Outcome(opened
                 \o <<EvRows("execute_batch", sid, built.value, values, "None"),
                      Ev("commit", sid, built.value, "None")>>
                 \o closed, "None", <<>>)

(***************************************************************************)
(* __Database.insert_file.  kw is the caller's keyword arguments: fields   *)
(* is [given, list], and the columns of the file stand in when not given.  *)
(***************************************************************************)
insert_file(adapter, filepath, decoded, table_name, kw, sid, fail) ==
    LET df == read_table(filepath, decoded)
    IN  IF df.raised # "None" THEN Outcome(<<>>, df.raised, <<>>)
        ELSE LET a == [values |-> df.value.records,
                       query |-> [given |-> FALSE, text |-> <<>>],
                       table_name |-> table_name,
                       fields |-> IF kw.fields.given THEN kw.fields.list
                                  ELSE df.value.columns,
                       on_conflict_fields |-> kw.on_conflict_fields,
                       ignore_on_conflict |-> kw.ignore_on_conflict]
             IN  IF adapter = SQLITE THEN sqlite_insert(a, sid, fail)
                 ELSE postgresql_insert(a, sid, fail)

(***************************************************************************)
(* State.  The program keeps no state of its own between calls: what       *)
(* persists is the backend's sessions.  op, args, ret and log record the   *)
(* call that has just run, until its outcome is delivered to the caller.   *)
(***************************************************************************)
VARIABLES
    pc,       \* "idle" between calls, "start" before and "done" after a call
    op,       \* the operation called
    args,     \* its arguments
    ret,      \* [raised, value]: what the call raised or returned
    log,      \* the driver calls it made, in order
    nextId,   \* the id of the next session get_connection opens
    open,     \* the ids of the sessions that are open
    used      \* the ids of the sessions used by the calls delivered so far

vars == <<pc, op, args, ret, log, nextId, open, used>>

NoArgs == [none |-> TRUE]
NoRet == [raised |-> "None", value |-> <<>>]

Acquired(l) == {l[i].sid : i \in {j \in 1..Len(l) : l[j].ev = "connect" /\ l[j].err = "None"}}
Closed(l) == {l[i].sid : i \in {j \in 1..Len(l) : l[j].ev = "close" /\ l[j].err = "None"}}
CursorsCreated(l) ==
    {l[i].sid : i \in {j \in 1..Len(l) : l[j].ev = "cursor" /\ l[j].err = "None"}}
CursorsClosed(l) ==
    {l[i].sid : i \in {j \in 1..Len(l) : l[j].ev = "cursor_close" /\ l[j].err = "None"}}
SessionsIn(l) == {l[i].sid : i \in 1..Len(l)} \ {0}

(***************************************************************************)
(* Inputs.                                                                 *)
(***************************************************************************)
QueryChars == {"a", ";", ",", ")"}
Texts == SeqsUpTo(QueryChars, MaxText)

BackendErrors == {"OperationalError", "IntegrityError"}

FailsAt(steps, ks) ==
    {NoFail} \cup {[step |-> st, k |-> k, err |-> e] :
                       st \in steps, k \in ks, e \in BackendErrors}

TableT == <<"t">>
TableInserts == <<"I","N","S","E","R","T","S">>
TablePatched == <<"t", ",", ")">>
TableNames == {TableT, TableInserts, TablePatched}

FieldA == <<"a">>
FieldB == <<"b">>
FieldLastInsert == <<"L","A","S","T","_","I","N","S","E","R","T">>
FieldPatched == <<"c", ",", ")">>
FieldNames == {FieldA, FieldB, FieldLastInsert, FieldPatched}

IsDuplicateFree(s) == \A i, j \in 1..Len(s) : i # j => s[i] # s[j]
FieldLists == {f \in SeqsUpTo(FieldNames, MaxFields) : IsDuplicateFree(f)}
ConflictLists == SeqsUpTo(FieldNames, MaxConflict)

Dialects ==
    {SQLITE, POSTGRESQL, <<"S","Q","L","i","t","e">>, <<"m","y","s","q","l">>, <<>>}

FloatNaN == [type |-> "float", nan |-> TRUE]
Float32NaN == [type |-> "numpy.float32", nan |-> TRUE]
Values ==
    {[type |-> t, nan |-> n] : t \in FloatTypes, n \in BOOLEAN}
        \cup {[type |-> t, nan |-> FALSE] : t \in OtherTypes} \cup {None}
Batches == SeqsUpTo(SeqsUpTo(Values, MaxCols), MaxRows)

SmallBatches == {<<>>, <<<<FloatNaN, [type |-> "str", nan |-> FALSE]>>>>}

InsertArgs ==
    [values : SmallBatches,
     query : {[given |-> FALSE, text |-> <<>>], [given |-> TRUE, text |-> <<"q">>]},
     table_name : {TableT},
     fields : {<<FieldA>>, <<FieldA, FieldB>>},
     on_conflict_fields : {<<>>, <<FieldA>>},
     ignore_on_conflict : BOOLEAN]

Paths ==
    {<<"d", ".">> \o CSV, <<"d", ".">> \o PKL, <<"d", ".">> \o PARQUET,
     <<"d", ".">> \o CSV \o <<".", "g", "z">>, <<"d", ".", "C", "S", "V">>,
     <<"d">>, CSV}

Decoded ==
    {Raised("FileNotFoundError"),
     Returned([columns |-> <<FieldA, FieldB>>,
               records |-> <<<<Float32NaN, [type |-> "str", nan |-> FALSE]>>>>])}

FileKwargs ==
    [fields : {[given |-> FALSE, list |-> <<>>], [given |-> TRUE, list |-> <<FieldB, FieldA>>]},
     on_conflict_fields : {<<>>, <<FieldA>>},
     ignore_on_conflict : {FALSE}]

Schemas == {<<>>, <<<<"x">>>>, <<<<"x">>, <<"y">>>>}

(***************************************************************************)
(* The adapter under a caller: one action per public operation, each the   *)
(* whole call, and the delivery of its outcome.                            *)
(***************************************************************************)
Init ==
    /\ pc = "idle"
    /\ op = "none"
    /\ args = NoArgs
    /\ ret = NoRet
    /\ log = <<>>
    /\ nextId = 1
    /\ open = {}
    /\ used = {}

Call(name, a, out) ==
    /\ pc = "idle"
    /\ nextId <= MaxSessions
    /\ pc' = "done"
    /\ op' = name
    /\ args' = a
    /\ ret' = [raised |-> out.raised, value |-> out.value]
    /\ log' = out.log
    /\ nextId' = IF Acquired(out.log) # {} THEN nextId + 1 ELSE nextId
    /\ open' = (open \cup Acquired(out.log)) \ Closed(out.log)
    /\ UNCHANGED used

SelectQuery ==
    \E text \in Texts, fail \in FailsAt({"connect", "read_sql"}, {0}) :
        Call("select_query", [query |-> text], select_query(text, nextId, fail))

GetTable ==
    \E t \in TableNames, fail \in FailsAt({"connect", "read_sql"}, {0}) :
        Call("get_table", [table_name |-> t], get_table(t, nextId, fail))

Query ==
    \E text \in Texts,
       fail \in FailsAt({"connect"}, {0})
                  \cup FailsAt({"execute", "fetchall", "commit"}, 1..(MaxText + 1)) :
        Call("query", [query |-> text], query(text, nextId, fail))

GetSchema ==
    \E schema \in Schemas, fail \in FailsAt({"connect", "read_sql"}, {0}) :
        Call("get_schema", [schema |-> schema], get_schema(schema, nextId, fail))

SQLiteInsert ==
    \E a \in InsertArgs, fail \in FailsAt({"connect", "executemany", "commit"}, {0}) :
        Call("sqlite_insert", a, sqlite_insert(a, nextId, fail))

PostgreSQLInsert ==
    \E a \in InsertArgs,
       fail \in FailsAt({"connect", "cursor", "execute_batch", "commit"}, {0}) :
        Call("postgresql_insert", a, postgresql_insert(a, nextId, fail))

InsertFile ==
    \E adapter \in {SQLITE, POSTGRESQL}, path \in Paths, decoded \in Decoded,
       kw \in FileKwargs,
       fail \in FailsAt({"connect", "cursor", "executemany", "execute_batch",
                         "commit"}, {0}) :
        Call("insert_file",
             [adapter |-> adapter, filepath |-> path, kw |-> kw],
             insert_file(adapter, path, decoded, TableT, kw, nextId, fail))

GetInsertQuery ==
    \E language \in Dialects, fields \in {<<>>, <<FieldA, FieldB>>},
       conflict \in {<<>>, <<FieldA>>}, ignore \in BOOLEAN :
        Call("get_insert_query",
             [table_name |-> TableT, fields |-> fields, language |-> language,
              on_conflict_fields |-> conflict, ignore_on_conflict |-> ignore],
             LET r == get_insert_query(TableT, fields, language, conflict, ignore)
             IN  Outcome(<<>>, r.raised, r.value))

\* The caller receives the return value or the error; the call is over.
Deliver ==
    /\ pc = "done"
    /\ pc' = "idle"
    /\ op' = "none"
    /\ args' = NoArgs
    /\ ret' = NoRet
    /\ log' = <<>>
    /\ used' = used \cup SessionsIn(log)
    /\ UNCHANGED <<nextId, open>>

Next ==
    \/ SelectQuery
    \/ GetTable
    \/ Query
    \/ GetSchema
    \/ SQLiteInsert
    \/ PostgreSQLInsert
    \/ InsertFile
    \/ GetInsertQuery
    \/ Deliver

Spec == Init /\ [][Next]_vars

(***************************************************************************)
(* get_insert_query alone, on every input within the bounds.               *)
(***************************************************************************)
InitBuild ==
    /\ pc = "start"
    /\ op = "get_insert_query"
    /\ args \in [table_name : TableNames, fields : FieldLists, language : Dialects,
                 on_conflict_fields : ConflictLists, ignore_on_conflict : BOOLEAN]
    /\ ret = NoRet
    /\ log = <<>>
    /\ nextId = 1
    /\ open = {}
    /\ used = {}

ApplyGetInsertQuery ==
    /\ pc = "start"
    /\ pc' = "done"
    /\ ret' = get_insert_query(args.table_name, args.fields, args.language,
                  args.on_conflict_fields, args.ignore_on_conflict)
    /\ UNCHANGED <<op, args, log, nextId, open, used>>

NextBuild == ApplyGetInsertQuery

SpecBuild == InitBuild /\ [][NextBuild]_vars

(***************************************************************************)
(* validate_insert_values alone, on every batch within the bounds.         *)
(***************************************************************************)
InitValues ==
    /\ pc = "start"
    /\ op = "validate_insert_values"
    /\ args \in [values : Batches]
    /\ ret = NoRet
    /\ log = <<>>
    /\ nextId = 1
    /\ open = {}
    /\ used = {}

ApplyValidateInsertValues ==
    /\ pc = "start"
    /\ pc' = "done"
    /\ ret' = Returned(validate_insert_values(args.values))
    /\ UNCHANGED <<op, args, log, nextId, open, used>>

NextValues == ApplyValidateInsertValues

SpecValues == InitValues /\ [][NextValues]_vars

(***************************************************************************)
(* validate_query alone, on every text within the bounds.                  *)
(***************************************************************************)
PatchChars == {"a", "(", ",", ")"}

InitPatch ==
    /\ pc = "start"
    /\ op = "validate_query"
    /\ args \in [query : SeqsUpTo(PatchChars, MaxPatchLen)]
    /\ ret = NoRet
    /\ log = <<>>
    /\ nextId = 1
    /\ open = {}
    /\ used = {}

ApplyValidateQuery ==
    /\ pc = "start"
    /\ pc' = "done"
    /\ ret' = Returned(validate_query(args.query))
    /\ UNCHANGED <<op, args, log, nextId, open, used>>

NextPatch == ApplyValidateQuery

SpecPatch == InitPatch /\ [][NextPatch]_vars

(***************************************************************************)
(* Sequences of the calls that open one session and close it in a finally  *)
(* block: select_query, get_table, query, get_schema and the insert of     *)
(* SQLiteDatabase.                                                         *)
(***************************************************************************)
NextSessions ==
    \/ SelectQuery
    \/ GetTable
    \/ Query
    \/ GetSchema
    \/ SQLiteInsert
    \/ Deliver

SpecSessions == Init /\ [][NextSessions]_vars

(***************************************************************************)
(* Properties.                                                             *)
(***************************************************************************)
Failed(l) == {i \in 1..Len(l) : l[i].err # "None"}
Connects(l) == {i \in 1..Len(l) : l[i].ev = "connect" /\ l[i].err = "None"}

\* C1: in any sequence of calls of select_query, get_table, query,
\* get_schema and SQLiteDatabase.insert, with the backend failing at any
\* step, a call acquires at most one session, every session it acquired is
\* closed when it returns or raises, no session is open between calls, and
\* a call uses no session an earlier call used.
C1_SessionsScopedToCall ==
    /\ open = {}
    /\ pc = "done" =>
        /\ Cardinality(Connects(log)) <= 1
        /\ Acquired(log) \subseteq Closed(log)
        /\ SessionsIn(log) \subseteq Acquired(log)
        /\ SessionsIn(log) \cap used = {}

C1_Witness ==
    /\ pc = "done"
    /\ op = "sqlite_insert"
    /\ ret.raised \in BackendErrors
    /\ \E i \in Failed(log) : log[i].ev = "commit"
    /\ Acquired(log) # {}
    /\ used # {}

\* C2: PostgreSQLDatabase.insert closes every connection it opened and
\* every cursor it created, whichever step fails.
C2_CursorAndConnectionReleased ==
    (pc = "done" /\ op = "postgresql_insert") =>
        /\ Acquired(log) \subseteq Closed(log)
        /\ CursorsCreated(log) \subseteq CursorsClosed(log)

\* C3: when a driver call fails during select_query, get_table, query,
\* get_schema or insert, the caller receives that driver call's own error,
\* after the session is closed, and nothing but the close follows the
\* failed call.
BackendOps ==
    {"select_query", "get_table", "query", "get_schema", "sqlite_insert",
     "postgresql_insert"}

C3_BackendErrorPropagates ==
    (pc = "done" /\ op \in BackendOps) =>
        \A i \in Failed(log) :
            /\ ret.raised = log[i].err
            /\ Acquired(log) \subseteq Closed(log)
            /\ \A j \in (i + 1)..Len(log) : log[j].ev \in {"close", "cursor_close"}

\* The pieces of t between its ';' characters, in order.
PiecesOf(t) ==
    LET semis == {i \in 1..Len(t) : t[i] = ";"}
        m == Cardinality(semis)
        nth(k) == CHOOSE i \in semis : Cardinality({j \in semis : j <= i}) = k
        cut(k) == IF k = 0 THEN 0 ELSE IF k = m + 1 THEN Len(t) + 1 ELSE nth(k)
    IN  [i \in 1..(m + 1) |-> SubSeq(t, cut(i - 1) + 1, cut(i) - 1)]

QuerySteps == <<"execute", "fetchall", "commit">>

\* C4: query runs the ';'-separated statements s1..sn of the patched text on
\* one fresh session, each as execute, fetchall, commit before the next
\* statement starts.  When all succeed it returns the n results in order;
\* when a driver call of statement k fails, nothing of k+1..n runs, the
\* commits of s1..s(k-1) stand, an error is raised instead of a result, and
\* the session is closed.
C4_QueryRunsStatementsInOrder ==
    (pc = "done" /\ op = "query" /\ Acquired(log) # {}) =>
        LET ss == PiecesOf(validate_query(args.query))
            n == Len(ss)
            body == SubSeq(log, 2, Len(log) - 1)
            m == Len(body)
            sid == log[1].sid
        IN  /\ log[1].ev = "connect" /\ sid \notin used
            /\ log[Len(log)].ev = "close" /\ log[Len(log)].sid = sid
            /\ log[Len(log)].err = "None"
            /\ sid \notin open
            /\ m <= 3 * n
            /\ \A j \in 1..m :
                /\ body[j].ev = QuerySteps[((j - 1) % 3) + 1]
                /\ body[j].arg = ss[((j - 1) \div 3) + 1]
                /\ body[j].sid = sid
                /\ body[j].err # "None" => j = m
            /\ IF Failed(body) # {}
               THEN ret.raised # "None"
               ELSE /\ m = 3 * n
                    /\ ret.raised = "None"
                    /\ ret.value = [i \in 1..n |-> ResultOf(ss[i])]

C4_Witness ==
    /\ pc = "done"
    /\ op = "query"
    /\ ret.raised \in BackendErrors
    /\ Len(PiecesOf(validate_query(args.query))) = 3
    /\ \E i \in 1..Len(log) : log[i].ev = "commit" /\ log[i].err = "None"
    /\ \E i \in Failed(log) : log[i].ev = "execute" /\ i = 5

IsNaN(v) == v.type \in FloatTypes /\ v.nan

\* C5: validate_insert_values returns a batch of the same shape in which
\* each NaN of a numeric type, 32-bit floats included, has become None and
\* every other entry is the input entry.
C5_NaNBecomesNone ==
    (pc = "done" /\ op = "validate_insert_values") =>
        /\ ret.raised = "None"
        /\ Len(ret.value) = Len(args.values)
        /\ \A i \in 1..Len(args.values) :
            /\ Len(ret.value[i]) = Len(args.values[i])
            /\ \A j \in 1..Len(args.values[i]) :
                ret.value[i][j] = IF IsNaN(args.values[i][j]) THEN None
                                  ELSE args.values[i][j]

\* s without the characters at the positions in D.
WithoutPositions(s, D) ==
    LET keep == (1..Len(s)) \ D
        nth(k) == CHOOSE i \in keep : Cardinality({j \in keep : j <= i}) = k
    IN  [k \in 1..Cardinality(keep) |-> s[nth(k)]]

\* C6: the result of validate_query holds no ',)' and is the input with
\* nothing but commas removed.
C6_NoCommaParenLeft ==
    (pc = "done" /\ op = "validate_query") =>
        /\ ~Contains(ret.value, CommaParen)
        /\ \E D \in SUBSET {i \in 1..Len(args.query) : args.query[i] = ","} :
               ret.value = WithoutPositions(args.query, D)

IsRecognized(language) == StrLower(language) \in {SQLITE, POSTGRESQL}

TokenOf(language) ==
    IF StrLower(language) = SQLITE THEN <<"?">> ELSE <<"%", "s">>

RECURSIVE QuotedList(_)
QuotedList(fs) ==
    IF fs = <<>> THEN <<>>
    ELSE <<"\"">> \o Head(fs) \o <<"\"">>
             \o (IF Len(fs) > 1 THEN <<",", " ">> ELSE <<>>) \o QuotedList(Tail(fs))

RECURSIVE TokenList(_, _)
TokenList(token, n) ==
    IF n = 0 THEN <<>>
    ELSE token \o (IF n > 1 THEN <<",", " ">> ELSE <<>>) \o TokenList(token, n - 1)

\* 'INSERT INTO t ("f1", ..., "fn") VALUES (p, ..., p)'
PlainInsert(t, fs, token) ==
    <<"I","N","S","E","R","T"," ","I","N","T","O"," ">> \o t \o <<" ", "(">>
        \o QuotedList(fs) \o <<")"," ","V","A","L","U","E","S"," ","(">>
        \o TokenList(token, Len(fs)) \o <<")">>

PlainCase ==
    /\ pc = "done"
    /\ op = "get_insert_query"
    /\ IsRecognized(args.language)
    /\ args.on_conflict_fields = <<>>

NamesFreeOfCommaParen ==
    /\ ~Contains(args.table_name, CommaParen)
    /\ \A i \in 1..Len(args.fields) : ~Contains(args.fields[i], CommaParen)

\* C7 as stated: with no conflict fields, for every table name and field
\* list, the result is the plain INSERT statement.
C7_PlainInsertForEveryName ==
    PlainCase =>
        ret = Returned(PlainInsert(args.table_name, args.fields, TokenOf(args.language)))

\* C7 as amended: with no conflict fields, for every table name and
\* duplicate-free field list in which no name contains ',)', the result is
\* the plain INSERT statement, whatever ignore_on_conflict is.
C7_PlainInsertForPatchFreeNames ==
    (PlainCase /\ NamesFreeOfCommaParen) =>
        ret = Returned(PlainInsert(args.table_name, args.fields, TokenOf(args.language)))

C7_Witness ==
    /\ PlainCase
    /\ NamesFreeOfCommaParen
    /\ args.language = POSTGRESQL
    /\ args.ignore_on_conflict
    /\ args.table_name = TableInserts
    /\ Len(args.fields) = 2
    /\ ret.raised = "None"

ConflictCase ==
    /\ pc = "done"
    /\ op = "get_insert_query"
    /\ IsRecognized(args.language)
    /\ args.on_conflict_fields # <<>>

IsNoOpVariant ==
    IF StrLower(args.language) = SQLITE
    THEN IsPrefix(<<"I","N","S","E","R","T"," ","O","R"," ","I","G","N","O","R","E"," ">>,
                  ret.value)
    ELSE IsSuffix(<<" ","D","O"," ","N","O","T","H","I","N","G">>, ret.value)

IsUpsertVariant ==
    Contains(ret.value, <<" ","D","O"," ","U","P","D","A","T","E"," ","S","E","T"," ">>)

EmptyUpdateList ==
    Contains(ret.value, <<"S","E","T"," ","(",")"," ","="," ","(",")">>)

\* C8: with conflict fields, the no-op variant is emitted exactly when
\* ignore_on_conflict is set or every field is in the conflict key;
\* otherwise the upsert clause is emitted, and its update list is never
\* empty.  Conflict lists may repeat a column or name one outside fields.
C8_NoOpExactlyWhenNothingToUpdate ==
    ConflictCase =>
        LET nothing ==
                \/ args.ignore_on_conflict
                \/ Range(args.fields) \subseteq Range(args.on_conflict_fields)
        IN  /\ ret.raised = "None"
            /\ IsNoOpVariant <=> nothing
            /\ IsUpsertVariant <=> ~nothing
            /\ ~EmptyUpdateList

\* C9: the no-op variant for sqlite is the plain statement with only its
\* leading INSERT rewritten to INSERT OR IGNORE, whatever the names hold;
\* for postgresql it is the plain statement followed by
\* 'ON CONFLICT (<conflict fields>) DO NOTHING'.
C9_NoOpVariantKeepsPlainStatement ==
    (ConflictCase /\ IsNoOpVariant /\ ~IsUpsertVariant) =>
        LET plain == get_insert_query(args.table_name, args.fields, args.language,
                         <<>>, FALSE).value
        IN  IF StrLower(args.language) = SQLITE
            THEN ret.value =
                     <<"I","N","S","E","R","T"," ","O","R"," ","I","G","N","O","R","E">>
                         \o SubSeq(plain, 7, Len(plain))
            ELSE /\ IsPrefix(plain, ret.value)
                 /\ IsSuffix(<<"O","N"," ","C","O","N","F","L","I","C","T"," ","(">>
                                 \o validate_query(QuotedList(args.on_conflict_fields)
                                        \o <<")">>)
                                 \o <<" ","D","O"," ","N","O","T","H","I","N","G">>,
                             ret.value)

\* The text after the last '.' of a path, the whole path when it has none.
LastSuffix(path) ==
    LET dots == {i \in 1..Len(path) : path[i] = "."}
    IN  IF dots = {} THEN path
        ELSE SubSeq(path, (CHOOSE i \in dots : \A j \in dots : j <= i) + 1, Len(path))

HasDecoder(path) == LastSuffix(path) \in {CSV, PKL, PARQUET}

\* C10: get_insert_query with an unrecognized dialect raises and returns no
\* statement; insert_file with a path whose suffix has no decoder raises
\* TypeError; in both cases no driver call is made: no session is opened,
\* no row is submitted, nothing is committed.
C10_ValidationFailureLeavesBackendAlone ==
    /\ (pc = "done" /\ op = "get_insert_query" /\ ~IsRecognized(args.language)) =>
           /\ ret.raised = "AssertionError"
           /\ ret.value = <<>>
           /\ log = <<>>
    /\ (pc = "done" /\ op = "insert_file" /\ ~HasDecoder(args.filepath)) =>
           /\ ret.raised = "TypeError"
           /\ log = <<>>

C10_Witness ==
    /\ pc = "done"
    /\ op = "insert_file"
    /\ ~HasDecoder(args.filepath)
    /\ Contains(args.filepath, CSV)
    /\ ret.raised = "TypeError"
    /\ used # {}

=============================================================================
